---- MODULE Spec2Model ----
(***************************************************************************)
(* Model of src/ragas/metrics/answer_relevance.py: the AnswerRelevancy     *)
(* metric.  score() slices the dataset into batches, _score_batch asks the *)
(* generation model for `strictness` candidate questions per answer, and   *)
(* calculate_similarity embeds the question and its candidates and returns *)
(* the cosine similarities, which the caller reduces with max().           *)
(*                                                                         *)
(* Numbers.  Embedding vectors are integer vectors with an integer L2 norm,*)
(* so a cosine is an exact rational; IEEE division by zero is kept (0/0 is *)
(* NaN, x/0 is +-inf) and ndarray.max() propagates NaN as numpy does.      *)
(* Floating-point rounding is not modelled.                                *)
(*                                                                         *)
(* Collaborators.  The embedding service is a fixed table from texts to    *)
(* vectors that covers a unit vector, an orthogonal one, the zero vector   *)
(* and a vector of norm 5 at an obtuse angle.  The generation model is a   *)
(* fixed table from answers to the completions it samples; the variety of  *)
(* its replies comes from the variety of answers in the dataset.  Either   *)
(* call may fail.  get_batches (ragas.metrics.base) and generate           *)
(* (ragas.metrics.llms) are not part of the file and follow its            *)
(* description.                                                            *)
(***************************************************************************)
EXTENDS Integers, Sequences, FiniteSets, TLC

\* ------------------------------------------------------------------ bounds
MaxRows == 2          \* rows of the dataset under Spec
MaxBatch == 2         \* batch_size ranges over 1..MaxBatch under Spec
MaxStrict == 3        \* strictness ranges over 1..MaxStrict under Spec
MaxBigRows == 32      \* rows of the dataset under SpecSlices

\* ------------------------------------------------------- program constants
DefaultBatchSize == 15
DefaultStrictness == 3
DefaultName == "answer_relevancy"

\* ------------------------------------------------------------ small sets
\* Texts a question or a generated question can be, and answers.
Texts == {"east", "north", "zero", "west"}
Answers == {"a1", "a2", "a3"}
Context == "ctx"
Names == {DefaultName, "relevancy"}

\* ------------------------------------------------------------- arithmetic
Abs(x) == IF x < 0 THEN 0 - x ELSE x

RECURSIVE Gcd(_, _)
Gcd(a, b) == IF b = 0 THEN a ELSE Gcd(b, a % b)

\* A float: a reduced fraction, an infinity, or NaN.
NaN == [kind |-> "nan", num |-> 0, den |-> 0]
Inf(sign) == [kind |-> "inf", num |-> sign, den |-> 0]
Frac(n, d) ==
    LET g == Gcd(Abs(n), Abs(d))
        s == IF d < 0 THEN 0 - 1 ELSE 1
    IN  [kind |-> "num", num |-> (s * n) \div g, den |-> (s * d) \div g]
Zero == Frac(0, 1)
One == Frac(1, 1)

IsNaN(x) == x.kind = "nan"

\* x < y for two floats that are not NaN.
Lt(x, y) == x.num * y.den < y.num * x.den

\* numpy's elementwise true division of two numbers (integers here).
Divide_guarded(n, d) == IF d = 0 THEN Frac(0, 1) ELSE Frac(n, d)
Divide(n, d) ==
    IF d # 0 THEN Frac(n, d)
    ELSE IF n = 0 THEN NaN
    ELSE IF n > 0 THEN Inf(1) ELSE Inf(0 - 1)

\* ---------------------------------------------------------------- vectors
Dot(u, v) == u[1] * v[1] + u[2] * v[2]

\* np.linalg.norm of one vector: the square root of the sum of squares.
\* The vectors of the model have an integer norm.
Norm(v) == CHOOSE n \in 0..(Abs(v[1]) + Abs(v[2])) : n * n = Dot(v, v)

\* ndarray.max() of a non-empty array of floats: NaN if any element is NaN.
RECURSIVE MaxFrom(_, _, _)
MaxFrom(xs, i, best) ==
    IF i > Len(xs) THEN best
    ELSE MaxFrom(xs, i + 1, IF Lt(best, xs[i]) THEN xs[i] ELSE best)

\* Python's builtin max(): a comparison with NaN is false, so a NaN that is
\* not the first element is skipped.
ArrayMax_builtin(xs) == MaxFrom(xs, 2, xs[1])
ArrayMax(xs) ==
    IF \E i \in 1..Len(xs) : IsNaN(xs[i]) THEN NaN
    ELSE MaxFrom(xs, 2, xs[1])

\* The sum and the mean of an array of floats (no infinities arise here);
\* the reduction the metric does not use, kept for comparison with max().
AddFloat(x, y) ==
    IF IsNaN(x) \/ IsNaN(y) THEN NaN
    ELSE Frac(x.num * y.den + y.num * x.den, x.den * y.den)

RECURSIVE SumFrom(_, _)
SumFrom(xs, i) == IF i > Len(xs) THEN Zero ELSE AddFloat(xs[i], SumFrom(xs, i + 1))

ArrayMean(xs) ==
    LET t == SumFrom(xs, 1)
    IN  IF IsNaN(t) THEN NaN ELSE Frac(t.num, t.den * Len(xs))

\* ------------------------------------------------------ the collaborators
\* The embedding service: one vector per text.
Embed(text) ==
    CASE text = "east"  -> <<1, 0>>
      [] text = "north" -> <<0, 1>>
      [] text = "zero"  -> <<0, 0>>
      [] text = "west"  -> <<0 - 3, 4>>

embed_query(text) == Embed(text)
embed_documents(texts) == [i \in 1..Len(texts) |-> Embed(texts[i])]

\* The generation model: the completions it samples for an answer.
Samples(answer) ==
    CASE answer = "a1" -> <<"east", "north">>
      [] answer = "a2" -> <<"west", "west", "east">>
      [] answer = "a3" -> <<"north", "zero", "west">>

Completion(answer, k) ==
    LET s == Samples(answer) IN s[((k - 1) % Len(s)) + 1]

\* QUESTION_GEN.format(answer=ans): the prompt carries the answer.
Prompt(ans) == [template |-> "QUESTION_GEN", answer |-> ans]

\* generate(prompts, llm, n): n completions for every prompt, in prompt order.
generate(ps, n) ==
    [i \in 1..Len(ps) |-> [k \in 1..n |-> Completion(ps[i].answer, k)]]

\* get_batches(total_size): consecutive ranges [start, stop) of batch_size.
RECURSIVE BatchesFrom(_, _, _)
BatchesFrom(start, total, size) ==
    IF start >= total THEN << >>
    ELSE <<[start |-> start,
            stop |-> IF start + size < total THEN start + size ELSE total]>>
         \o BatchesFrom(start + size, total, size)

get_batches(total, size) == BatchesFrom(0, total, size)

\* Dataset.select(range): the rows of the range, in range order.
select_from_head(table, batch) ==
    [i \in 1..(batch.stop - batch.start) |-> table[i]]
select(table, batch) ==
    [i \in 1..(batch.stop - batch.start) |-> table[batch.start + i]]

\* Dataset[column]: the column as a list.
Column(table, c) == [i \in 1..Len(table) |-> table[i][c]]

\* Dataset.add_column(name, values).
add_column_rebuilt(table, c, values) ==
    [i \in 1..Len(table) |->
        (c :> values[i]) @@ [question |-> table[i].question,
                             answer |-> table[i].answer]]
add_column(table, c, values) ==
    [i \in 1..Len(table) |-> (c :> values[i]) @@ table[i]]

\* calculate_similarity, lines 90-98, on the vectors the service returned.
cosine_half_norm(gen_vec, q_vec) ==
    [i \in 1..Len(gen_vec) |->
        Divide(Dot(gen_vec[i], q_vec), Norm(gen_vec[i]))]
cosine(gen_vec, q_vec) ==
    [i \in 1..Len(gen_vec) |->
        Divide(Dot(gen_vec[i], q_vec), Norm(gen_vec[i]) * Norm(q_vec))]

\* ------------------------------------------------------------------ state
VARIABLES
    dataset,         \* the input table: a sequence of rows (column -> value)
    name,            \* AnswerRelevancy.name
    batch_size,      \* AnswerRelevancy.batch_size
    strictness,      \* AnswerRelevancy.strictness
    pc,              \* where score() stands
    scores,          \* score(): scores
    batches,         \* score(): the list get_batches returned
    bi,              \* score(): position of the for loop in batches
    visited,         \* the batches the for loop has handed to _score_batch
    questions,       \* _score_batch: dataset["question"]
    answers,         \* _score_batch: dataset["answer"]
    prompts,         \* _score_batch: prompts
    results,         \* _score_batch: results
    batch_scores,    \* _score_batch: scores
    ri,              \* _score_batch: position of the zip loop
    question_vec,    \* calculate_similarity: question_vec
    cosine_sim,      \* _score_batch: cosine_sim of the last record
    calls,           \* the calls made to the two external services, in order
    returned         \* what score() returned, if it has

vars == <<dataset, name, batch_size, strictness, pc, scores, batches, bi,
          visited, questions, answers, prompts, results, batch_scores, ri,
          question_vec, cosine_sim, calls, returned>>

config == <<dataset, name, batch_size, strictness>>
score_locals == <<scores, batches, bi, visited>>
batch_locals == <<questions, answers, prompts, results, batch_scores, ri>>
sim_locals == <<question_vec, cosine_sim>>

NoReturn == [set |-> FALSE, table |-> << >>]
Returns(table) == [set |-> TRUE, table |-> table]

Row(q, a) == [question |-> q, answer |-> a, contexts |-> Context]
Rows == {Row(q, a) : q \in Texts, a \in Answers}

\* All tables of at most n rows.
RECURSIVE Tables(_)
Tables(n) ==
    IF n = 0 THEN {<< >>}
    ELSE LET shorter == Tables(n - 1)
         IN  shorter \cup {Append(t, r) : t \in {u \in shorter : Len(u) = n - 1},
                                          r \in Rows}

\* The state at the call of score(): nothing has run.
Fresh ==
    /\ pc = "start"
    /\ scores = << >>
    /\ batches = << >>
    /\ bi = 0
    /\ visited = << >>
    /\ questions = << >>
    /\ answers = << >>
    /\ prompts = << >>
    /\ results = << >>
    /\ batch_scores = << >>
    /\ ri = 0
    /\ question_vec = << >>
    /\ cosine_sim = << >>
    /\ calls = << >>
    /\ returned = NoReturn

Init ==
    /\ dataset \in Tables(MaxRows)
    /\ name = DefaultName
    /\ batch_size \in 1..MaxBatch
    /\ strictness \in 1..MaxStrict
    /\ Fresh

\* The i-th row of a table whose questions and answers vary with the row.
TextCycle == <<"east", "north", "zero", "west">>
AnswerCycle == <<"a1", "a2", "a3">>
VariedRow(i) == Row(TextCycle[(i % Len(TextCycle)) + 1],
                    AnswerCycle[(i % Len(AnswerCycle)) + 1])

\* A metric of the default strictness on a table of up to MaxBigRows rows.
InitSlices ==
    /\ \E n \in 0..MaxBigRows : dataset = [i \in 1..n |-> VariedRow(i)]
    /\ name \in Names
    /\ batch_size \in 1..DefaultBatchSize
    /\ strictness = DefaultStrictness
    /\ Fresh

\* ---------------------------------------------------------------- actions
\* A call of an external service, as the log keeps it.
Call(op, texts, n, ok) == [op |-> op, texts |-> texts, n |-> n, ok |-> ok]

\* The batches the for loop of score() runs over (line 59).
BatchesOf_short(table, size) ==
    get_batches(IF Len(table) = 0 THEN 0 ELSE Len(table) - 1, size)
BatchesOf(table, size) == get_batches(Len(table), size)

\* The batch the for loop hands out at its i-th turn: the list's order.
BatchAt_reversed(bs, i) == bs[Len(bs) + 1 - i]
BatchAt(bs, i) == bs[i]

\* No call of score() or _score_batch is guarded: a failure of a service
\* ends score() where it happens.
Raise_retry == "for_batch"
Raise == "failed"

\* Lines 58-59: scores = [], the batches are computed once.
ScoreBegin ==
    /\ pc = "start"
    /\ scores' = << >>
    /\ batches' = BatchesOf(dataset, batch_size)
    /\ bi' = 1
    /\ pc' = "for_batch"
    /\ UNCHANGED <<config, visited, batch_locals, sim_locals, calls, returned>>

\* The prompts of a batch, one per answer (lines 68-71).
PromptsFor(ans) == [i \in 1..Len(ans) |-> Prompt(ans[i])]

\* Lines 59-60 and 66-71: the next batch is selected and its prompts built.
NextBatch ==
    /\ pc = "for_batch"
    /\ bi <= Len(batches)
    /\ LET sub == select(dataset, BatchAt(batches, bi))
       IN  /\ questions' = Column(sub, "question")
           /\ answers' = Column(sub, "answer")
           /\ prompts' = PromptsFor(Column(sub, "answer"))
    /\ visited' = Append(visited, BatchAt(batches, bi))
    /\ pc' = "generate"
    /\ UNCHANGED <<config, scores, batches, bi, results, batch_scores, ri,
                   sim_locals, calls, returned>>

\* Lines 73-74: one generation call for the whole batch; it may fail.
Generate ==
    /\ pc = "generate"
    /\ \E ok \in BOOLEAN :
         /\ calls' = Append(calls, Call("generate", Column(prompts, "answer"),
                                        strictness, ok))
         /\ IF ok
            THEN /\ results' = generate(prompts, strictness)
                 /\ batch_scores' = << >>
                 /\ ri' = 1
                 /\ pc' = "for_record"
            ELSE /\ pc' = Raise
                 /\ UNCHANGED <<results, batch_scores, ri>>
    /\ UNCHANGED <<config, score_locals, questions, answers, prompts,
                   sim_locals, returned>>

\* zip(questions, results) stops at the shorter of the two (line 77).
ZipLen(xs, ys) == IF Len(xs) < Len(ys) THEN Len(xs) ELSE Len(ys)

\* Lines 77-78 and 86: the question of the next record is embedded.
EmbedQuery ==
    /\ pc = "for_record"
    /\ ri <= ZipLen(questions, results)
    /\ \E ok \in BOOLEAN :
         /\ calls' = Append(calls, Call("embed_query", <<questions[ri]>>, 0, ok))
         /\ IF ok
            THEN /\ question_vec' = embed_query(questions[ri])
                 /\ pc' = "embed_documents"
            ELSE /\ pc' = Raise
                 /\ UNCHANGED question_vec
    /\ UNCHANGED <<config, score_locals, batch_locals, cosine_sim, returned>>

\* The reduction of line 79.
Reduce_mean(sims) == ArrayMean(sims)
Reduce(sims) == ArrayMax(sims)

\* Lines 87-98 and 79: the candidates are embedded, the similarities computed
\* and their maximum appended.
EmbedDocuments ==
    /\ pc = "embed_documents"
    /\ \E ok \in BOOLEAN :
         /\ calls' = Append(calls, Call("embed_documents", results[ri], 0, ok))
         /\ IF ok
            THEN LET sims == cosine(embed_documents(results[ri]), question_vec)
                 IN  /\ cosine_sim' = sims
                     /\ batch_scores' = Append(batch_scores, Reduce(sims))
                     /\ ri' = ri + 1
                     /\ pc' = "for_record"
            ELSE /\ pc' = Raise
                 /\ UNCHANGED <<cosine_sim, batch_scores, ri>>
    /\ UNCHANGED <<config, score_locals, questions, answers, prompts, results,
                   question_vec, returned>>

\* Lines 81 and 61: the batch's scores are returned and appended to scores.
BatchReturn ==
    /\ pc = "for_record"
    /\ ri > ZipLen(questions, results)
    /\ scores' = scores \o batch_scores
    /\ bi' = bi + 1
    /\ pc' = "for_batch"
    /\ UNCHANGED <<config, batches, visited, batch_locals, sim_locals, calls,
                   returned>>

\* Line 63: the column is added; a column of another length is refused.
AddColumn ==
    /\ pc = "for_batch"
    /\ bi > Len(batches)
    /\ IF Len(scores) = Len(dataset)
       THEN /\ returned' = Returns(add_column(dataset, name, scores))
            /\ pc' = "done"
       ELSE /\ pc' = "failed"
            /\ UNCHANGED returned
    /\ UNCHANGED <<config, score_locals, batch_locals, sim_locals, calls>>

Next ==
    \/ ScoreBegin
    \/ NextBatch
    \/ Generate
    \/ EmbedQuery
    \/ EmbedDocuments
    \/ BatchReturn
    \/ AddColumn

Spec == Init /\ [][Next]_vars

SpecSlices == InitSlices /\ [][Next]_vars

\* ----------------------------------------------------------------- claims
Done == pc = "done"
Out == returned.table
N == Len(dataset)

\* x <= y for two floats that are not NaN.
Le(x, y) == x.num * y.den <= y.num * x.den

\* The candidate questions the generation model gives for the answer of a row.
CandidatesOf(row) == [k \in 1..strictness |-> Completion(row.answer, k)]

\* The similarities of a row's question to the candidates of its own answer.
SimsOf(row) == cosine(embed_documents(CandidatesOf(row)), Embed(row.question))

\* m is the greatest element of a NaN-free array.
IsGreatest(m, xs) ==
    /\ \E k \in 1..Len(xs) : xs[k] = m
    /\ \A k \in 1..Len(xs) : Le(xs[k], m)

HasNaN(xs) == \E k \in 1..Len(xs) : IsNaN(xs[k])

\* The score a row must get: NaN if a similarity is NaN, else the greatest.
IsScoreOf(x, row) ==
    IF HasNaN(SimsOf(row)) THEN IsNaN(x) ELSE IsGreatest(x, SimsOf(row))

\* The record the zip loop of _score_batch has just scored.
JustScored == pc = "for_record" /\ ri > 1

\* C1: when every call succeeds, score() returns a table of exactly N rows in
\* the input order, and the new column of row i holds the score computed from
\* question i and the candidates generated from answer i.
C1_RowsAligned ==
    Done =>
        /\ Len(Out) = N
        /\ \A i \in 1..N :
            /\ Out[i].question = dataset[i].question
            /\ Out[i].answer = dataset[i].answer
            /\ IsScoreOf(Out[i][name], dataset[i])

C1_Witness ==
    /\ Done
    /\ N >= 2
    /\ Len(batches) >= 2
    /\ \E i, j \in 1..N : ~IsScoreOf(Out[i][name], dataset[j])

\* The row indices 0..N-1 that lie in the range b.
Covers(b, idx) == b.start <= idx /\ idx < b.stop

\* bs is a list of contiguous ranges of 1..size rows that cover 0..n-1 once.
IsPartition(bs, n, size) ==
    /\ \A j \in 1..Len(bs) :
        /\ bs[j].start = (IF j = 1 THEN 0 ELSE bs[j - 1].stop)
        /\ bs[j].start < bs[j].stop
        /\ bs[j].stop - bs[j].start <= size
    /\ (IF Len(bs) = 0 THEN 0 ELSE bs[Len(bs)].stop) = n
    /\ \A idx \in 0..(n - 1) :
        Cardinality({j \in 1..Len(bs) : Covers(bs[j], idx)}) = 1

Range(a, b) == [start |-> a, stop |-> b]

\* The for loop of score() has run out of batches.
LoopOver == Done \/ (pc = "for_batch" /\ bi > Len(batches))

\* C2: the batches score() iterates over are contiguous ranges of at most
\* batch_size rows that cover 0..N-1 exactly once, in order; batch_size 15 on
\* 32 rows gives [0:15], [15:30], [30:32].
C2_BatchesPartition ==
    /\ \A j \in 1..Len(visited) :
        /\ visited[j].start = (IF j = 1 THEN 0 ELSE visited[j - 1].stop)
        /\ visited[j].start < visited[j].stop
        /\ visited[j].stop - visited[j].start <= batch_size
        /\ visited[j].stop <= N
    /\ LoopOver =>
        /\ IsPartition(visited, N, batch_size)
        /\ (batch_size = 15 /\ N = 32) =>
              visited = <<Range(0, 15), Range(15, 30), Range(30, 32)>>

C2_Witness ==
    /\ Done
    /\ batch_size = 15
    /\ N = 32
    /\ Len(visited) = 3

\* C3: for every answer of a batch exactly `strictness` completions are asked
\* for and returned, the question is compared with every one of them, and the
\* row's score is the greatest of these similarities.
C3_MaxOverAllCandidates ==
    /\ \A c \in 1..Len(calls) :
        calls[c].op = "generate" => calls[c].n = strictness
    /\ pc \in {"for_record", "embed_documents"} =>
        /\ Len(results) = Len(answers)
        /\ \A i \in 1..Len(results) : Len(results[i]) = strictness
    /\ JustScored =>
        /\ Len(cosine_sim) = strictness
        /\ \A k \in 1..strictness :
            cosine_sim[k] = Divide(Dot(Embed(results[ri - 1][k]), question_vec),
                                   Norm(Embed(results[ri - 1][k])) * Norm(question_vec))
        /\ ~HasNaN(cosine_sim) =>
              IsGreatest(batch_scores[ri - 1], cosine_sim)

C3_Witness ==
    /\ JustScored
    /\ strictness = DefaultStrictness
    /\ ~HasNaN(cosine_sim)
    /\ batch_scores[ri - 1] = cosine_sim[2]
    /\ batch_scores[ri - 1] # cosine_sim[1]
    /\ batch_scores[ri - 1] # cosine_sim[3]

NonZero(v) == v # <<0, 0>>

\* The embeddings behind a row's score all have a nonzero norm.
AllNonZero(row) ==
    /\ NonZero(Embed(row.question))
    /\ \A k \in 1..strictness : NonZero(Embed(CandidatesOf(row)[k]))

InUnitInterval(x) == x.kind = "num" /\ Le(Zero, x) /\ Le(x, One)

\* C4: every score written to the output column lies in [0, 1] when the
\* question embedding and the candidate embeddings have a nonzero norm.
C4_ScoreInUnitInterval ==
    Done => \A i \in 1..N :
        AllNonZero(dataset[i]) => InUnitInterval(Out[i][name])

Sign(x) == IF x > 0 THEN 1 ELSE IF x < 0 THEN 0 - 1 ELSE 0

\* x is the cosine of the angle between u and v (both nonzero).
IsCosine(x, u, v) ==
    /\ x.kind = "num"
    /\ Sign(x.num) = Sign(Dot(u, v))
    /\ x.num * x.num * Dot(u, u) * Dot(v, v) = Dot(u, v) * Dot(u, v) * x.den * x.den

\* C5: calculate_similarity gives, per candidate, the dot product divided by
\* the product of the norms: 1 for identical vectors, 0 for orthogonal ones,
\* [1, 0] for question [1,0] and candidates [1,0], [0,1]; a record whose
\* candidates all embed to the question's vector scores 1.
C5_CosineFormula ==
    JustScored =>
        LET q == Embed(questions[ri - 1])
            c == [k \in 1..strictness |-> Embed(results[ri - 1][k])]
        IN  /\ \A k \in 1..strictness :
                (NonZero(q) /\ NonZero(c[k])) =>
                    /\ IsCosine(cosine_sim[k], c[k], q)
                    /\ c[k] = q => cosine_sim[k] = One
                    /\ Dot(c[k], q) = 0 => cosine_sim[k] = Zero
            /\ (q = <<1, 0>> /\ c = << <<1, 0>>, <<0, 1>> >>) =>
                    /\ cosine_sim = <<One, Zero>>
                    /\ batch_scores[ri - 1] = One
            /\ (NonZero(q) /\ \A k \in 1..strictness : c[k] = q) =>
                    batch_scores[ri - 1] = One

C5_Witness ==
    /\ JustScored
    /\ question_vec = <<1, 0>>
    /\ cosine_sim = <<One, Zero>>
    /\ batch_scores[ri - 1] = One

\* C6: a candidate embedding of zero norm gets a NaN similarity, never 0, and
\* nothing between calculate_similarity and the output column replaces it.
C6_ZeroNormIsNaN ==
    /\ JustScored =>
        \A k \in 1..strictness :
            ~NonZero(Embed(results[ri - 1][k])) => IsNaN(cosine_sim[k])
    /\ Done => \A i \in 1..N :
        (\E k \in 1..strictness : ~NonZero(Embed(CandidatesOf(dataset[i])[k])))
            => Out[i][name].kind # "num"

C6_Witness ==
    /\ Done
    /\ strictness >= 2
    /\ \E i \in 1..N :
        /\ NonZero(Embed(dataset[i].question))
        /\ \E k \in 1..strictness : ~NonZero(Embed(CandidatesOf(dataset[i])[k]))
        /\ \E k \in 1..strictness : NonZero(Embed(CandidatesOf(dataset[i])[k]))
        /\ IsNaN(Out[i][name])

\* C7: score() leaves every column of every row as it was and adds exactly
\* one column, named by the metric's name ("answer_relevancy" by default).
C7_OnlyOneColumnAdded ==
    Done => \A i \in 1..N :
        /\ DOMAIN Out[i] = DOMAIN dataset[i] \cup {name}
        /\ name \notin DOMAIN dataset[i]
        /\ \A c \in DOMAIN dataset[i] : Out[i][c] = dataset[i][c]

C7_Witness ==
    /\ Done
    /\ N >= 2
    /\ name # DefaultName
    /\ Out[1][name] # Out[2][name]
    /\ dataset[1] # dataset[2]
    /\ Out[1].contexts = Context

\* C8: a failed generation or embedding call ends score() there: the call is
\* the last one made, no later batch is selected and no table is returned.
C8_FailureEndsScore ==
    /\ returned.set => Done
    /\ \A c \in 1..Len(calls) :
        ~calls[c].ok =>
            /\ c = Len(calls)
            /\ pc = "failed"
            /\ ~returned.set
            /\ Len(visited) = bi

C8_Witness ==
    /\ pc = "failed"
    /\ Len(scores) >= 1
    /\ bi < Len(batches)
    /\ ~calls[Len(calls)].ok

\* The rows of the j-th batch, counted from 1.
FirstRow(j) == (j - 1) * batch_size + 1
LastRow(j) == IF j * batch_size < N THEN j * batch_size ELSE N
NumBatches == (N + batch_size - 1) \div batch_size

RECURSIVE RecordCalls(_, _)
RecordCalls(i, last) ==
    IF i > last THEN << >>
    ELSE <<Call("embed_query", <<dataset[i].question>>, 0, TRUE),
           Call("embed_documents", CandidatesOf(dataset[i]), 0, TRUE)>>
         \o RecordCalls(i + 1, last)

RECURSIVE BatchCalls(_)
BatchCalls(j) ==
    IF j > NumBatches THEN << >>
    ELSE <<Call("generate",
                [i \in 1..(LastRow(j) - FirstRow(j) + 1) |->
                    dataset[FirstRow(j) + i - 1].answer],
                strictness, TRUE)>>
         \o RecordCalls(FirstRow(j), LastRow(j))
         \o BatchCalls(j + 1)

IsPrefix(xs, ys) ==
    /\ Len(xs) <= Len(ys)
    /\ \A i \in 1..Len(xs) : xs[i] = ys[i]

CountOps(ops) == Cardinality({c \in 1..Len(calls) : calls[c].op \in ops})

\* C9: in a successful run the calls come one after another, batch by batch
\* in increasing order: one generation call with a prompt per answer of the
\* batch, then for each record in row order embed_query and embed_documents;
\* ceil(N / batch_size) generation calls and 2 * N embedding calls in all.
C9_CallOrder ==
    /\ (\A c \in 1..Len(calls) : calls[c].ok) => IsPrefix(calls, BatchCalls(1))
    /\ Done =>
        /\ calls = BatchCalls(1)
        /\ CountOps({"generate"}) = NumBatches
        /\ CountOps({"embed_query", "embed_documents"}) = 2 * N

C9_Witness ==
    /\ Done
    /\ N >= 2
    /\ NumBatches >= 2
    /\ dataset[1].question # dataset[2].question
    /\ dataset[1].answer # dataset[2].answer

\* C10: the maximum propagates NaN.  A record with a zero-norm candidate or a
\* zero-norm question scores NaN even when other candidates have a defined
\* similarity; a record without one gets the greatest of its similarities.
C10_NaNPropagates ==
    Done => \A i \in 1..N :
        LET q == Embed(dataset[i].question)
            c == [k \in 1..strictness |-> Embed(CandidatesOf(dataset[i])[k])]
        IN  IF ~NonZero(q) \/ \E k \in 1..strictness : ~NonZero(c[k])
            THEN IsNaN(Out[i][name])
            ELSE /\ \E k \in 1..strictness : IsCosine(Out[i][name], c[k], q)
                 /\ \A k \in 1..strictness :
                        \A x \in {Frac(Dot(c[k], q), Norm(c[k]) * Norm(q))} :
                            Le(x, Out[i][name])

C10_Witness ==
    /\ Done
    /\ N >= 2
    /\ strictness >= 2
    /\ \E i, j \in 1..N :
        /\ NonZero(Embed(dataset[i].question))
        /\ ~NonZero(Embed(CandidatesOf(dataset[i])[2]))
        /\ NonZero(Embed(CandidatesOf(dataset[i])[1]))
        /\ IsNaN(Out[i][name])
        /\ AllNonZero(dataset[j])
        /\ Out[j][name] = One
====
